---- MODULE Spec2Model ----
(***************************************************************************)
(* Exchange Data Service (exchange-data-service/main.py): the registry of  *)
(* venue connectors, the collect_* request handlers, arbitrage detection   *)
(* and the websocket stream supervisors, as state machines.                *)
(*                                                                         *)
(* Specifications:                                                         *)
(*   Spec         startup and shutdown: initialize(), shutdown()           *)
(*   CollectSpec  one collect_* request at a time over an initialized      *)
(*                registry, fetch by fetch                                 *)
(*   CollectFair  CollectSpec with the fairness the event loop and the     *)
(*                connector's request timeout give                         *)
(*   ArbSpec      detect_arbitrage_opportunities over rich ticker payloads *)
(*   StreamSpec   stream_websocket_data and its supervisors                *)
(*   StreamFair   StreamSpec with the event loop's fairness                *)
(*   FrameSpec    requests, streams and shutdown of the started service    *)
(***************************************************************************)
EXTENDS Integers, Sequences, FiniteSets, TLC

\* ------------------------------------------------------------------ bounds
\* Number of entries of exchange_configs that the model keeps.
NumVenues == 2

\* Supervisor tasks and calls of stream_websocket_data the model follows.
MaxTasks == 2

MaxSessions == 1

\* collect_block_range is tried with the block numbers FirstBlock to
\* FirstBlock + MaxBlocks, which lie on both sides of 0xf / 0x10.
FirstBlock == 14

MaxBlocks == 4

\* Venue ids are positions in exchange_configs (dict insertion order).
Venues == 1..NumVenues

Symbols == {"ETH/USDT", "ETH/BTC"}

\* Python's None where a number is expected (prices and volumes are >= 0).
None == -1

VARIABLES
    \* --- registry (ExchangeDataService.__init__, initialize)
    exchanges,      \* self.exchanges: the keys, in insertion order
    markets,        \* exchange.markets of every configured venue
    running,        \* self.running
    sinks,          \* kafka_producer, mongodb_client, redis_client: their state
    initPc,         \* where startup_event / initialize stands
    cfgIdx,         \* position of the loop over exchange_configs
    attempts,       \* history: venue -> "none" | "ok" | "failed"
    shutPc,         \* where shutdown() stands
    closeIdx,       \* position of shutdown's loop over self.exchanges
    closed,         \* the venues whose exchange.close() has completed
    \* --- one collect_* / detect request
    req,            \* the request being served, or NoReq
    result,         \* ticker_data / ohlcv_data / orderbook_data / trades_data
    awaiting,       \* the fetch the handler is suspended on, or NoFetch
    issued,         \* history: the fetches issued by this request, in order
    errorLog,       \* logger.error entries of this request, in order
    counted,        \* data_collected_counter: the labels incremented, in order
    returned,       \* the value handed to the caller once req.pc = "returned"
    \* --- streaming
    tasks,          \* the supervisor tasks created so far, in creation order
    session,        \* the calls of stream_websocket_data, in call order
    gauge,          \* websocket_connections
    \* --- EthereumCollector.collect_block_range
    collector       \* the call of collect_block_range, or NoCall; requests
                    \* and fetched are the history of its get_block calls

regVars == <<exchanges, markets, running, sinks, initPc, cfgIdx, attempts>>
shutVars == <<shutPc, closeIdx, closed>>
reqVars == <<req, result, awaiting, issued, errorLog, counted, returned>>
strVars == <<tasks, session, gauge>>
vars == <<exchanges, markets, running, sinks, initPc, cfgIdx, attempts,
          shutPc, closeIdx, closed,
          req, result, awaiting, issued, errorLog, counted, returned,
          tasks, session, gauge, collector>>

\* The members of a sequence.
Range(s) == {s[i] : i \in 1..Len(s)}

Active == Range(exchanges)

NoFetch == [exchange |-> 0, symbol |-> "none"]

NoPos == [vi |-> 0, si |-> 0]

NoReq ==
    [kind |-> "none", caller |-> "none", symbols |-> <<>>, min_spread |-> 0,
     vi |-> 0, si |-> 0, pc |-> "idle"]

\* The request and streaming parts before any request was made.
ReqIdle ==
    /\ req = NoReq
    /\ result = <<>>
    /\ awaiting = NoFetch
    /\ issued = <<>>
    /\ errorLog = <<>>
    /\ counted = <<>>
    /\ returned = <<>>

ShutIdle ==
    /\ shutPc = "none"
    /\ closeIdx = 1
    /\ closed = {}

NoSinks == [kafka |-> "none", mongo |-> "none", redis |-> "none"]

StrIdle ==
    /\ tasks = <<>>
    /\ session = <<>>
    /\ gauge = 0

\* collect_block_range has not been called.
NoCall ==
    [pc |-> "idle", start_block |-> 0, end_block |-> 0, block_num |-> 0,
     blocks |-> <<>>, requests |-> <<>>, fetched |-> <<>>]

ColIdle == collector = NoCall

\* ---------------------------------------------------------------- startup
\* ExchangeDataService.__init__
Init ==
    /\ exchanges = <<>>
    /\ markets = [v \in Venues |-> {}]
    /\ running = FALSE
    /\ sinks = NoSinks
    /\ initPc = "new"
    /\ cfgIdx = 1
    /\ attempts = [v \in Venues |-> "none"]
    /\ ShutIdle
    /\ ReqIdle
    /\ StrIdle
    /\ ColIdle

\* What one pass of the try block of _initialize_exchanges can end in: the
\* class lookup or constructor raises, load_markets raises, or the markets
\* are loaded.
LoadOutcomes ==
    {[ok |-> FALSE, markets |-> {}]} \cup
    {[ok |-> TRUE, markets |-> m] : m \in SUBSET Symbols}

\* initialize(): the producer is created and started, then the two clients
\* are constructed; an exception of start() leaves initialize() and
\* startup_event.
InitializeBegin ==
    /\ initPc = "new"
    /\ \E started \in BOOLEAN :
         IF started
         THEN /\ sinks' = [kafka |-> "started", mongo |-> "open", redis |-> "open"]
              /\ initPc' = "exchanges"
         ELSE /\ sinks' = [sinks EXCEPT !.kafka = "created"]
              /\ initPc' = "failed"
    /\ UNCHANGED <<exchanges, markets, running, cfgIdx, attempts>>
    /\ UNCHANGED shutVars
    /\ UNCHANGED reqVars
    /\ UNCHANGED strVars
    /\ UNCHANGED collector

AfterInitFailure_Abort(i) == NumVenues + 1

\* The except clause is inside the for loop: the loop goes on with the next
\* configuration.
AfterInitFailure(i) == i + 1

\* One iteration of `for config in exchange_configs`.
InitializeExchange ==
    /\ initPc = "exchanges"
    /\ cfgIdx <= NumVenues
    /\ \E out \in LoadOutcomes :
         IF out.ok
         THEN /\ exchanges' = Append(exchanges, cfgIdx)
              /\ markets' = [markets EXCEPT ![cfgIdx] = out.markets]
              /\ attempts' = [attempts EXCEPT ![cfgIdx] = "ok"]
              /\ cfgIdx' = cfgIdx + 1
         ELSE /\ attempts' = [attempts EXCEPT ![cfgIdx] = "failed"]
              /\ cfgIdx' = AfterInitFailure(cfgIdx)
              /\ UNCHANGED <<exchanges, markets>>
    /\ UNCHANGED <<running, sinks, initPc>>
    /\ UNCHANGED shutVars
    /\ UNCHANGED reqVars
    /\ UNCHANGED strVars
    /\ UNCHANGED collector

\* The loop is over: initialize() logs success and returns normally.
InitializeDone ==
    /\ initPc = "exchanges"
    /\ cfgIdx > NumVenues
    /\ initPc' = "initialized"
    /\ UNCHANGED <<exchanges, markets, running, sinks, cfgIdx, attempts>>
    /\ UNCHANGED shutVars
    /\ UNCHANGED reqVars
    /\ UNCHANGED strVars
    /\ UNCHANGED collector

\* startup_event after initialize() returned.
StartupEvent ==
    /\ initPc = "initialized"
    /\ running' = TRUE
    /\ initPc' = "started"
    /\ UNCHANGED <<exchanges, markets, sinks, cfgIdx, attempts>>
    /\ UNCHANGED shutVars
    /\ UNCHANGED reqVars
    /\ UNCHANGED strVars
    /\ UNCHANGED collector

\* shutdown(): self.running = False, then the loop over the connectors is
\* entered.
ShutdownBegin ==
    /\ initPc = "started"
    /\ shutPc = "none"
    /\ running' = FALSE
    /\ shutPc' = "closing"
    /\ closeIdx' = 1
    /\ UNCHANGED <<exchanges, markets, sinks, initPc, cfgIdx, attempts, closed>>
    /\ UNCHANGED reqVars
    /\ UNCHANGED strVars
    /\ UNCHANGED collector

CloseOutcomes_Raises(v) == BOOLEAN

\* How `await exchange.close()` can end, TRUE for a normal return: closing an
\* open connector may raise; a connector already closed has no session left
\* to release and close() returns.
CloseOutcomes(v) == IF v \in closed THEN {TRUE} ELSE BOOLEAN

\* How `await self.kafka_producer.stop()` can end: stop() of a producer
\* already stopped returns at once.
StopOutcomes == IF sinks.kafka = "stopped" THEN {TRUE} ELSE BOOLEAN

AfterClose_Remove(exs, i) == SelectSeq(exs, LAMBDA v : v # exs[i])

\* self.exchanges after the connector at position i was closed: the loop
\* iterates over self.exchanges.values() and takes no entry out.
AfterClose(exs, i) == exs

\* One `await exchange.close()` of the loop; an exception of close() leaves
\* shutdown().
CloseExchange ==
    /\ shutPc = "closing"
    /\ closeIdx <= Len(exchanges)
    /\ \E ok \in CloseOutcomes(exchanges[closeIdx]) :
         IF ok
         THEN /\ closed' = closed \cup {exchanges[closeIdx]}
              /\ closeIdx' = closeIdx + 1
              /\ exchanges' = AfterClose(exchanges, closeIdx)
              /\ UNCHANGED shutPc
         ELSE /\ shutPc' = "raised"
              /\ UNCHANGED <<closed, closeIdx, exchanges>>
    /\ UNCHANGED <<markets, running, sinks, initPc, cfgIdx, attempts>>
    /\ UNCHANGED reqVars
    /\ UNCHANGED strVars
    /\ UNCHANGED collector

\* `await self.kafka_producer.stop()`; an exception of stop() leaves
\* shutdown().
StopKafka ==
    /\ shutPc = "closing"
    /\ closeIdx > Len(exchanges)
    /\ \E ok \in StopOutcomes :
         IF ok
         THEN /\ sinks' = [sinks EXCEPT !.kafka = "stopped"]
              /\ shutPc' = "clients"
         ELSE /\ shutPc' = "raised"
              /\ UNCHANGED sinks
    /\ UNCHANGED <<exchanges, markets, running, initPc, cfgIdx, attempts>>
    /\ UNCHANGED <<closeIdx, closed>>
    /\ UNCHANGED reqVars
    /\ UNCHANGED strVars
    /\ UNCHANGED collector

\* mongodb_client.close() and `await redis_client.close()`.
CloseClients ==
    /\ shutPc = "clients"
    /\ sinks' = [sinks EXCEPT !.mongo = "closed", !.redis = "closed"]
    /\ shutPc' = "done"
    /\ UNCHANGED <<exchanges, markets, running, initPc, cfgIdx, attempts>>
    /\ UNCHANGED <<closeIdx, closed>>
    /\ UNCHANGED reqVars
    /\ UNCHANGED strVars
    /\ UNCHANGED collector

\* shutdown() is called again after an earlier call returned or raised:
\* nothing in shutdown() remembers the earlier call, so it sets running and
\* walks the same connectors and clients once more.
ShutdownAgain ==
    /\ shutPc \in {"done", "raised"}
    /\ running' = FALSE
    /\ shutPc' = "closing"
    /\ closeIdx' = 1
    /\ UNCHANGED <<exchanges, markets, sinks, initPc, cfgIdx, attempts, closed>>
    /\ UNCHANGED reqVars
    /\ UNCHANGED strVars
    /\ UNCHANGED collector

Next ==
    \/ InitializeBegin
    \/ InitializeExchange
    \/ InitializeDone
    \/ StartupEvent
    \/ ShutdownBegin
    \/ CloseExchange
    \/ StopKafka
    \/ CloseClients
    \/ ShutdownAgain

Spec == Init /\ [][Next]_vars

\* ------------------------------------------------------- collect requests
\* A registry as initialize() and startup_event leave it: the venues whose
\* markets loaded, in configuration order, and the service running.
Started ==
    /\ \E outs \in [Venues -> LoadOutcomes] :
         /\ exchanges = SelectSeq([v \in Venues |-> v], LAMBDA v : outs[v].ok)
         /\ markets = [v \in Venues |-> outs[v].markets]
         /\ attempts = [v \in Venues |-> IF outs[v].ok THEN "ok" ELSE "failed"]
    /\ running = TRUE
    /\ sinks = [kafka |-> "started", mongo |-> "open", redis |-> "open"]
    /\ initPc = "started"
    /\ cfgIdx = NumVenues + 1
    /\ ShutIdle

CollectInit ==
    /\ Started
    /\ ReqIdle
    /\ StrIdle
    /\ ColIdle

Capable_Always(v, s) == TRUE

\* `if symbol in exchange.markets`
Capable(v, s) == s \in markets[v]

\* The loop position of the next fetch at or after (vi, si): the loop over
\* self.exchanges.items() with the loop over symbols inside it.
RECURSIVE NextFetch(_, _, _)
NextFetch(symbols, vi, si) ==
    IF vi > Len(exchanges) THEN NoPos
    ELSE IF si > Len(symbols) THEN NextFetch(symbols, vi + 1, 1)
    ELSE IF Capable(exchanges[vi], symbols[si]) THEN [vi |-> vi, si |-> si]
    ELSE NextFetch(symbols, vi, si + 1)

AfterFetchFailure_Abort(vi) == [vi |-> Len(exchanges) + 1, si |-> 1]

AfterFetchFailure_Retry(vi) == [vi |-> vi, si |-> 1]

AfterFetchFailure_NextSymbol(vi) == [vi |-> vi, si |-> req.si + 1]

\* The try block encloses the loop over symbols and the except clause is
\* inside the loop over venues: the handler goes on with the next venue.
AfterFetchFailure(vi) == [vi |-> vi + 1, si |-> 1]

\* ccxt payloads of fetch_ticker: the fields the handlers read.
Ticker(l, b, a, vol) == [last |-> l, bid |-> b, ask |-> a, volume |-> vol]

PlainTickers == {Ticker(100, None, None, None), Ticker(None, None, None, None)}

\* The payloads detect_arbitrage_opportunities is tried on: quotes with and
\* without bid, ask and volume, a zero ask, a zero volume, and one without
\* a last price.
RichTickers ==
    {Ticker(100, None, 100, 10), Ticker(105, 105, None, 8),
     Ticker(100, None, None, None), Ticker(105, None, None, 10),
     Ticker(100, 105, 100, 8), Ticker(105, 100, 0, 10),
     Ticker(101, 101, None, 0), Ticker(None, 105, 100, 8)}

\* fetch_ohlcv / fetch_trades return a list; an element is well formed or
\* lacks a field the conversion reads.
Batches == {<<>>, <<"good">>, <<"good", "good">>, <<"good", "bad", "good">>}

Payloads(r) ==
    CASE r.kind = "ticker" -> IF r.caller = "arbitrage" THEN RichTickers
                              ELSE PlainTickers
      [] r.kind = "orderbook" -> {"good", "bad"}
      [] OTHER -> Batches

\* The elements of a batch before its first malformed one.
RECURSIVE GoodPrefix(_)
GoodPrefix(b) ==
    IF b = <<>> \/ Head(b) = "bad" THEN 0 ELSE 1 + GoodPrefix(Tail(b))

Record(kind, v, s, d) == [kind |-> kind, exchange |-> v, symbol |-> s, data |-> d]

\* What the body of the try block appends for one payload, and whether it
\* ran to its end (ok) or raised: TickerData(last=None) fails validation,
\* orderbook['bids'] / trade['price'] of a malformed payload raise.
Convert_Atomic(kind, v, s, payload) ==
    CASE kind = "ticker" ->
           IF payload.last = None
           THEN [records |-> <<>>, ok |-> FALSE]
           ELSE [records |-> <<Record(kind, v, s, payload)>>, ok |-> TRUE]
      [] kind = "orderbook" ->
           IF payload = "bad"
           THEN [records |-> <<>>, ok |-> FALSE]
           ELSE [records |-> <<Record(kind, v, s, payload)>>, ok |-> TRUE]
      [] OTHER ->
           IF GoodPrefix(payload) = Len(payload)
           THEN [records |-> [i \in 1..Len(payload) |-> Record(kind, v, s, i)],
                 ok |-> TRUE]
           ELSE [records |-> <<>>, ok |-> FALSE]

Convert(kind, v, s, payload) ==
    CASE kind = "ticker" ->
           IF payload.last = None
           THEN [records |-> <<>>, ok |-> FALSE]
           ELSE [records |-> <<Record(kind, v, s, payload)>>, ok |-> TRUE]
      [] kind = "orderbook" ->
           IF payload = "bad"
           THEN [records |-> <<>>, ok |-> FALSE]
           ELSE [records |-> <<Record(kind, v, s, payload)>>, ok |-> TRUE]
      [] OTHER ->
           [records |-> [i \in 1..GoodPrefix(payload) |-> Record(kind, v, s, i)],
            ok |-> GoodPrefix(payload) = Len(payload)]

\* ------------------------------------------------------ arbitrage detection
\* Python's `a or b` on numbers: b when a is None or 0.
Or(a, b) == IF a # None /\ a # 0 THEN a ELSE b

Min2(a, b) == IF a <= b THEN a ELSE b

\* The key of the dict comprehension `{t.symbol: t for t in tickers ...}`.
GroupKey(t) == t.symbol

\* The values of `{t.symbol: t for t in seq}` in the dict's order: a key
\* stands where it was first inserted and holds the last value assigned to
\* it.
DictValues(seq) ==
    LET n == Len(seq)
        first == {i \in 1..n :
                     \A j \in 1..(i - 1) : GroupKey(seq[j]) # GroupKey(seq[i])}
        nth(m) == CHOOSE i \in first : Cardinality({j \in first : j <= i}) = m
        last(k) == CHOOSE i \in 1..n :
                       /\ GroupKey(seq[i]) = k
                       /\ \A j \in (i + 1)..n : GroupKey(seq[j]) # k
    IN  [m \in 1..Cardinality(first) |-> seq[last(GroupKey(seq[nth(m)]))]]

BuyKey(t) == Or(t.data.ask, t.data.last)

SellKey(t) == Or(t.data.bid, t.data.last)

\* min(seq, key=lambda x: x.ask or x.last): the first element with the
\* least key.
BestBuy(seq) ==
    seq[CHOOSE i \in 1..Len(seq) :
            /\ \A j \in 1..Len(seq) : BuyKey(seq[i]) <= BuyKey(seq[j])
            /\ \A j \in 1..(i - 1) : BuyKey(seq[j]) > BuyKey(seq[i])]

\* max(seq, key=lambda x: x.bid or x.last): the first element with the
\* greatest key.
BestSell(seq) ==
    seq[CHOOSE i \in 1..Len(seq) :
            /\ \A j \in 1..Len(seq) : SellKey(seq[i]) >= SellKey(seq[j])
            /\ \A j \in 1..(i - 1) : SellKey(seq[j]) < SellKey(seq[i])]

\* min_spread is a percentage; the model writes it in hundredths of a
\* percent, so 50 is 0.5.  spread_percentage is kept as the exact fraction
\* spread_pct_num / spread_pct_den.
SpreadClears(spread, buy_price, min_spread) ==
    spread * 100 * 100 >= min_spread * buy_price

\* The ArbitrageOpportunity built from the two chosen tickers.
Opportunity(best_buy, best_sell, symbol) ==
    LET buy_price == BuyKey(best_buy)
        sell_price == SellKey(best_sell)
        spread == sell_price - buy_price
        volume == Min2(Or(best_buy.data.volume, 0), Or(best_sell.data.volume, 0))
    IN  [symbol |-> symbol,
         buy_exchange |-> best_buy.exchange,
         sell_exchange |-> best_sell.exchange,
         buy_price |-> buy_price,
         sell_price |-> sell_price,
         spread |-> spread,
         spread_pct_num |-> spread * 100,
         spread_pct_den |-> buy_price,
         volume |-> volume,
         estimated_profit |-> spread * volume]

\* symbol_tickers.values(): the tickers the comparison ranges over.
SymbolTickers(tickers, symbol) ==
    DictValues(SelectSeq(tickers, LAMBDA t : t.symbol = symbol))

DetectArbitrage_Unguarded(tickers, symbol, min_spread) ==
    LET symbol_tickers == SelectSeq(tickers, LAMBDA t : t.symbol = symbol)
    IN  IF symbol_tickers = <<>> THEN <<>>
        ELSE
          LET opp == Opportunity(BestBuy(symbol_tickers),
                                 BestSell(symbol_tickers), symbol)
          IN  IF SpreadClears(opp.spread, opp.buy_price, min_spread)
              THEN <<opp>> ELSE <<>>

DetectArbitrage_AllPairs(tickers, symbol, min_spread) ==
    LET st == SelectSeq(tickers, LAMBDA t : t.symbol = symbol)
        n == Len(st)
        pairs == [k \in 1..(n * n) |-> <<((k - 1) \div n) + 1, ((k - 1) % n) + 1>>]
        good == SelectSeq(pairs, LAMBDA q :
                   /\ st[q[1]].exchange # st[q[2]].exchange
                   /\ SpreadClears(SellKey(st[q[2]]) - BuyKey(st[q[1]]),
                                   BuyKey(st[q[1]]), min_spread))
    IN  [k \in 1..Len(good) |-> Opportunity(st[good[k][1]], st[good[k][2]], symbol)]

\* detect_arbitrage_opportunities after its collect_ticker_data([symbol])
\* returned `tickers`.
DetectArbitrage(tickers, symbol, min_spread) ==
    IF Len(tickers) < 2 THEN <<>>
    ELSE
      LET symbol_tickers == SymbolTickers(tickers, symbol)
      IN  IF Len(symbol_tickers) < 2 THEN <<>>
          ELSE
            LET best_buy == BestBuy(symbol_tickers)
                best_sell == BestSell(symbol_tickers)
                opp == Opportunity(best_buy, best_sell, symbol)
            IN  IF /\ best_buy.exchange # best_sell.exchange
                   /\ SpreadClears(opp.spread, opp.buy_price, min_spread)
                THEN <<opp>>
                ELSE <<>>

\* ---------------------------------------------------------- the handlers
\* What the handler hands to its caller: the collected list, or for
\* detect_arbitrage_opportunities the opportunities computed from it.
ReturnValue(r, res) ==
    IF r.caller = "arbitrage"
    THEN DetectArbitrage(res, r.symbols[1], r.min_spread)
    ELSE res

\* The handler runs on from loop position pos, without suspending, to its
\* next `await exchange.fetch_*(...)` or to its return statement.
Resume(r, pos, res, iss, errs, cnt) ==
    LET nxt == NextFetch(r.symbols, pos.vi, pos.si) IN
    /\ result' = res
    /\ errorLog' = errs
    /\ counted' = cnt
    /\ IF nxt = NoPos
       THEN /\ req' = [r EXCEPT !.pc = "returned", !.vi = Len(exchanges) + 1, !.si = 1]
            /\ awaiting' = NoFetch
            /\ issued' = iss
            /\ returned' = ReturnValue(r, res)
       ELSE /\ req' = [r EXCEPT !.pc = "await", !.vi = nxt.vi, !.si = nxt.si]
            /\ awaiting' = [exchange |-> exchanges[nxt.vi], symbol |-> r.symbols[nxt.si]]
            /\ issued' = Append(iss, [exchange |-> exchanges[nxt.vi],
                                      symbol |-> r.symbols[nxt.si],
                                      outcome |-> "pending", size |-> 0,
                                      good |-> 0, prefix |-> 0])
            /\ returned' = <<>>

\* The number of elements of a payload: a batch's length, else one.
Size(kind, payload) ==
    IF kind \in {"ticker", "orderbook"} THEN 1 ELSE Len(payload)

\* The well-formed elements of a payload.
RECURSIVE GoodCount(_)
GoodCount(b) ==
    IF b = <<>> THEN 0
    ELSE (IF Head(b) = "good" THEN 1 ELSE 0) + GoodCount(Tail(b))

WellFormed(kind, payload) ==
    CASE kind = "ticker" -> IF payload.last = None THEN 0 ELSE 1
      [] kind = "orderbook" -> IF payload = "bad" THEN 0 ELSE 1
      [] OTHER -> GoodCount(payload)

\* The well-formed elements of a payload that precede its first malformed
\* one.
LeadingGood(kind, payload) ==
    IF kind \in {"ticker", "orderbook"} THEN WellFormed(kind, payload)
    ELSE GoodPrefix(payload)

\* The last fetch of the history gets its outcome, the size of the payload
\* it returned, the number of well-formed elements in it and the number of
\* those before the first malformed one.
Settle(iss, outcome, size, good, prefix) ==
    [iss EXCEPT ![Len(iss)].outcome = outcome, ![Len(iss)].size = size,
                ![Len(iss)].good = good, ![Len(iss)].prefix = prefix]

\* The symbol lists the API hands to collect_ticker_data, and the single
\* symbol of the other handlers.
SymbolLists(kind) ==
    {<<s>> : s \in Symbols} \cup
    (IF kind = "ticker" THEN {<<"ETH/USDT", "ETH/BTC">>} ELSE {})

Kinds == {"ticker", "ohlcv", "orderbook", "trades"}

\* GET /ticker, /ohlcv, /orderbook, /trades: the handler starts with an empty
\* list and runs to its first fetch.
StartCollect ==
    /\ running
    /\ req.pc \in {"idle", "returned"}
    /\ \E kind \in Kinds : \E symbols \in SymbolLists(kind) :
         Resume([NoReq EXCEPT !.kind = kind, !.caller = "api", !.symbols = symbols],
                [vi |-> 1, si |-> 1], <<>>, <<>>, <<>>, <<>>)
    /\ UNCHANGED regVars
    /\ UNCHANGED shutVars
    /\ UNCHANGED strVars
    /\ UNCHANGED collector

\* min_spread values tried: 0.5, 1 and 10 percent.
MinSpreads == {50, 100, 1000}

\* GET /arbitrage: detect_arbitrage_opportunities calls
\* collect_ticker_data([symbol]).
StartDetect ==
    /\ running
    /\ req.pc \in {"idle", "returned"}
    /\ \E symbol \in Symbols : \E min_spread \in MinSpreads :
         Resume([NoReq EXCEPT !.kind = "ticker", !.caller = "arbitrage",
                              !.symbols = <<symbol>>, !.min_spread = min_spread],
                [vi |-> 1, si |-> 1], <<>>, <<>>, <<>>, <<>>)
    /\ UNCHANGED regVars
    /\ UNCHANGED shutVars
    /\ UNCHANGED strVars
    /\ UNCHANGED collector

\* The awaited fetch returns a payload: the records are built and appended,
\* the counter is incremented, and the loop over symbols goes on; a payload
\* that fails conversion raises inside the try block.
FetchReturn ==
    /\ req.pc = "await"
    /\ \E payload \in Payloads(req) :
         LET v == awaiting.exchange
             s == awaiting.symbol
             conv == Convert(req.kind, v, s, payload)
         IN  IF conv.ok
             THEN Resume(req, [vi |-> req.vi, si |-> req.si + 1],
                         result \o conv.records, Settle(issued, "ok", Size(req.kind, payload),
                                WellFormed(req.kind, payload),
                                LeadingGood(req.kind, payload)), errorLog,
                         Append(counted, [exchange |-> v, symbol |-> s]))
             ELSE Resume(req, AfterFetchFailure(req.vi),
                         result \o conv.records, Settle(issued, "schema", Size(req.kind, payload),
                                WellFormed(req.kind, payload),
                                LeadingGood(req.kind, payload)),
                         Append(errorLog, [exchange |-> v, cause |-> "schema"]),
                         counted)
    /\ UNCHANGED regVars
    /\ UNCHANGED shutVars
    /\ UNCHANGED strVars
    /\ UNCHANGED collector

\* The awaited fetch raises (network error, rate limit, ...): `except
\* Exception` logs it.
FetchRaise ==
    /\ req.pc = "await"
    /\ Resume(req, AfterFetchFailure(req.vi), result, Settle(issued, "error", 0, 0, 0),
              Append(errorLog, [exchange |-> awaiting.exchange, cause |-> "error"]),
              counted)
    /\ UNCHANGED regVars
    /\ UNCHANGED shutVars
    /\ UNCHANGED strVars
    /\ UNCHANGED collector

\* ExchangeConfig.timeout, in milliseconds, passed to every connector.
RequestTimeoutMs == 30000

HasRequestTimeout_Unset == FALSE

\* 'timeout': config.timeout makes the connector abandon a request that got
\* no response and raise RequestTimeout.
HasRequestTimeout == RequestTimeoutMs > 0

\* The awaited fetch got no response within the connector's timeout.
FetchTimeout ==
    /\ req.pc = "await"
    /\ HasRequestTimeout
    /\ Resume(req, AfterFetchFailure(req.vi), result, Settle(issued, "timeout", 0, 0, 0),
              Append(errorLog, [exchange |-> awaiting.exchange, cause |-> "timeout"]),
              counted)
    /\ UNCHANGED regVars
    /\ UNCHANGED shutVars
    /\ UNCHANGED strVars
    /\ UNCHANGED collector

CollectNext ==
    \/ StartCollect
    \/ FetchReturn
    \/ FetchRaise
    \/ FetchTimeout

CollectSpec == CollectInit /\ [][CollectNext]_vars

\* A fetch that never answers is ended by the connector's timeout; the event
\* loop resumes the handler then.
CollectFair == CollectSpec /\ WF_vars(FetchTimeout)

ArbNext ==
    \/ StartDetect
    \/ FetchReturn
    \/ FetchRaise
    \/ FetchTimeout

ArbSpec == CollectInit /\ [][ArbNext]_vars

\* ---------------------------------------------------------------- streaming
\* Streaming is followed over the registries in which every configured
\* venue loaded its markets: a venue lists no symbol of interest, ETH/USDT
\* alone, or both symbols.
StreamInit ==
    /\ Started
    /\ Len(exchanges) = NumVenues
    /\ \A v \in Venues : markets[v] \in {{}, {"ETH/USDT"}, Symbols}
    /\ ReqIdle
    /\ StrIdle
    /\ ColIdle

\* The loop body asks for ticker, order book and trades in this order.
TypeOrder == <<"ticker", "orderbook", "trades">>

\* The data_types lists POST /stream/start is tried with.
DataTypeSets == {{"ticker"}, {"orderbook", "trades"}}

\* The symbols lists POST /stream/start is tried with.
StreamSymbolLists == {<<"ETH/USDT">>, <<"ETH/USDT", "ETH/BTC">>}

\* The position in TypeOrder of the first requested data type at or after
\* k, 0 when there is none: the `if DataType.X in data_types` tests.
NextType(dts, k) ==
    IF \E i \in k..3 : TypeOrder[i] \in dts
    THEN CHOOSE i \in k..3 :
             /\ TypeOrder[i] \in dts
             /\ \A j \in k..(i - 1) : TypeOrder[j] \notin dts
    ELSE 0

\* The (venue, symbol) pairs a task is created for, in loop order.
RECURSIVE StreamPairs(_, _, _)
StreamPairs(symbols, vi, si) ==
    LET n == NextFetch(symbols, vi, si) IN
    IF n = NoPos THEN <<>>
    ELSE <<[exchange |-> exchanges[n.vi], symbol |-> symbols[n.si]]>>
         \o StreamPairs(symbols, n.vi, n.si + 1)

\* A supervisor task: pc is where it is suspended, dt the position in
\* TypeOrder of the data type at hand, pend the records of the received
\* message still to publish, erred whether a receive failed since the last
\* record it published.
NewTask(k, pair) ==
    [sess |-> k, exchange |-> pair.exchange, symbol |-> pair.symbol,
     pc |-> "created", dt |-> 0, pend |-> 0, erred |-> FALSE]

\* POST /stream/start: stream_websocket_data creates one task per listed
\* (venue, symbol) and awaits their gather; with no task it returns at once.
\* The handler tests nothing before it adds the background task; limit
\* bounds the number of calls explored.
StartStream(limit) ==
    /\ initPc = "started"
    /\ shutPc = "none"
    /\ Len(session) < limit
    /\ \E symbols \in StreamSymbolLists : \E dts \in DataTypeSets :
         LET pairs == StreamPairs(symbols, 1, 1)
             k == Len(session) + 1
         IN  /\ Len(tasks) + Len(pairs) <= MaxTasks
             /\ tasks' = tasks \o [i \in 1..Len(pairs) |-> NewTask(k, pairs[i])]
             /\ session' = Append(session,
                    [state |-> IF pairs = <<>> THEN "ended" ELSE "gathering",
                     data_types |-> dts])
    /\ UNCHANGED gauge
    /\ UNCHANGED regVars
    /\ UNCHANGED shutVars
    /\ UNCHANGED reqVars
    /\ UNCHANGED collector

\* The calls of POST /stream/start, up to MaxSessions of them.
StartStreaming == StartStream(MaxSessions)

\* One more call of POST /stream/start after the first.
StartStreamingAgain ==
    /\ session # <<>>
    /\ StartStream(MaxSessions + 1)

HoldsLoop_BlockingSleep(t) == t.pc = "backoff"

\* Whether a suspended supervisor keeps the event loop to itself.  Every
\* suspension of a supervisor is an await (watch_*, send_and_wait,
\* asyncio.sleep): the loop is free for the other tasks.
HoldsLoop(t) == FALSE

\* Task s can be resumed by the event loop.
Scheduled(s) == \A x \in DOMAIN tasks \ {s} : ~HoldsLoop(tasks[x])

\* The supervisor at the test of `while self.running`: it enters the body
\* and asks for its first data type, or leaves through the finally clause.
LoopTop(t) ==
    IF running
    THEN [t EXCEPT !.pc = "recv", !.pend = 0,
                   !.dt = NextType(session[t.sess].data_types, 1)]
    ELSE [t EXCEPT !.pc = "done", !.pend = 0, !.dt = 0]

\* The supervisor after it is through with the data type at t.dt: the next
\* requested data type of the loop body, else the test of the loop.
AfterType(t) ==
    LET n == NextType(session[t.sess].data_types, t.dt + 1) IN
    IF n # 0 THEN [t EXCEPT !.pc = "recv", !.pend = 0, !.dt = n]
    ELSE LoopTop(t)

OnReceiveError_Exit(t) == [t EXCEPT !.pc = "done", !.pend = 0, !.dt = 0]

\* `except Exception` inside the while loop: the error is logged and the
\* supervisor sleeps; the loop is not left.
OnReceiveError(t) ==
    [t EXCEPT !.pc = "backoff", !.pend = 0, !.dt = 0, !.erred = TRUE]

Leave_NoFinally(t) == IF t.pc = "done" /\ ~t.erred THEN 1 ELSE 0

\* websocket_connections.dec() of the finally clause.
Leave(t) == IF t.pc = "done" THEN 1 ELSE 0

\* The task is run for the first time: websocket_connections.inc(), then
\* the loop.
SupStart(s) ==
    /\ tasks[s].pc = "created"
    /\ Scheduled(s)
    /\ tasks' = [tasks EXCEPT ![s] = LoopTop(tasks[s])]
    /\ gauge' = gauge + 1 - Leave(LoopTop(tasks[s]))
    /\ UNCHANGED session
    /\ UNCHANGED regVars
    /\ UNCHANGED shutVars
    /\ UNCHANGED reqVars
    /\ UNCHANGED collector

OnMessage_NoAwait(t, n) == [AfterType(t) EXCEPT !.pend = n]

\* The supervisor with n records of a received message to publish:
\* `await self._publish_to_kafka(...)` suspends it on the first of them.
OnMessage(t, n) == [t EXCEPT !.pc = "pub", !.pend = n]

\* The awaited watch_* returns: one message, or for watch_trades a list of
\* trades that may be empty.  The first record goes to _publish_to_kafka.
RecvOk(s) ==
    /\ tasks[s].pc = "recv"
    /\ Scheduled(s)
    /\ \E n \in (IF TypeOrder[tasks[s].dt] = "trades" THEN 0..2 ELSE {1}) :
         LET t == IF n = 0 THEN AfterType(tasks[s])
                  ELSE OnMessage(tasks[s], n)
         IN  /\ tasks' = [tasks EXCEPT ![s] = t]
             /\ gauge' = gauge - Leave(t)
    /\ UNCHANGED session
    /\ UNCHANGED regVars
    /\ UNCHANGED shutVars
    /\ UNCHANGED reqVars
    /\ UNCHANGED collector

\* The awaited watch_* raises.
RecvRaise(s) ==
    /\ tasks[s].pc = "recv"
    /\ Scheduled(s)
    /\ tasks' = [tasks EXCEPT ![s] = OnReceiveError(tasks[s])]
    /\ gauge' = gauge - Leave(OnReceiveError(tasks[s]))
    /\ UNCHANGED session
    /\ UNCHANGED regVars
    /\ UNCHANGED shutVars
    /\ UNCHANGED reqVars
    /\ UNCHANGED collector

AfterPublish_Escapes(t, sent) ==
    IF sent
    THEN LET u == [t EXCEPT !.pend = @ - 1, !.erred = FALSE]
         IN  IF u.pend > 0 THEN u ELSE AfterType(u)
    ELSE OnReceiveError(t)

\* The supervisor after a publish ended, sent or not: the except clause of
\* _publish_to_kafka logs a failure and returns, so either way the
\* supervisor goes on with the next trade of the list, the next data type,
\* or the loop test.
AfterPublish(t, sent) ==
    LET u == [t EXCEPT !.pend = @ - 1, !.erred = IF sent THEN FALSE ELSE @]
    IN  IF u.pend > 0 THEN u ELSE AfterType(u)

\* send_and_wait completes, or raises and _publish_to_kafka logs it (a
\* stopped producer raises); the supervisor goes on as AfterPublish says.
PubDone(s) ==
    /\ tasks[s].pc = "pub"
    /\ Scheduled(s)
    /\ \E sent \in (IF sinks.kafka = "started" THEN BOOLEAN ELSE {FALSE}) :
         LET t == AfterPublish(tasks[s], sent)
         IN  /\ tasks' = [tasks EXCEPT ![s] = t]
             /\ gauge' = gauge - Leave(t)
    /\ UNCHANGED session
    /\ UNCHANGED regVars
    /\ UNCHANGED shutVars
    /\ UNCHANGED reqVars
    /\ UNCHANGED collector

\* asyncio.sleep(5) is over: back to the loop test.
BackoffDone(s) ==
    /\ tasks[s].pc = "backoff"
    /\ Scheduled(s)
    /\ tasks' = [tasks EXCEPT ![s] = LoopTop(tasks[s])]
    /\ gauge' = gauge - Leave(LoopTop(tasks[s]))
    /\ UNCHANGED session
    /\ UNCHANGED regVars
    /\ UNCHANGED shutVars
    /\ UNCHANGED reqVars
    /\ UNCHANGED collector

TasksOf(k) == {s \in DOMAIN tasks : tasks[s].sess = k}

\* asyncio.gather(*websocket_tasks, return_exceptions=True) completes when
\* every task has.
GatherDone(k) == \A s \in TasksOf(k) : tasks[s].pc = "done"

\* The gather completes and stream_websocket_data returns.
SessionEnd(k) ==
    /\ session[k].state = "gathering"
    /\ GatherDone(k)
    /\ session' = [session EXCEPT ![k].state = "ended"]
    /\ UNCHANGED <<tasks, gauge>>
    /\ UNCHANGED regVars
    /\ UNCHANGED shutVars
    /\ UNCHANGED reqVars
    /\ UNCHANGED collector

StreamNext ==
    \/ StartStreaming
    \/ \E s \in DOMAIN tasks : SupStart(s)
    \/ \E s \in DOMAIN tasks : RecvOk(s)
    \/ \E s \in DOMAIN tasks : RecvRaise(s)
    \/ \E s \in DOMAIN tasks : PubDone(s)
    \/ \E s \in DOMAIN tasks : BackoffDone(s)
    \/ \E k \in DOMAIN session : SessionEnd(k)
    \/ ShutdownBegin
    \/ CloseExchange
    \/ StopKafka
    \/ CloseClients

StreamSpec == StreamInit /\ [][StreamNext]_vars

\* The streaming service with POST /stream/start called once more.
RestartNext ==
    \/ StreamNext
    \/ StartStreamingAgain

RestartSpec == StreamInit /\ [][RestartNext]_vars

\* The event loop resumes a task that is ready: a created task is started,
\* a sleep ends, send_and_wait ends (it has its own request timeout), a
\* completed gather returns.  Every close() and stop() of shutdown() returns
\* or raises, and closing a connector ends the receive pending on it.
\* Nothing else makes a venue send a message: a receive on an open connector
\* may wait for ever.
StreamFair ==
    /\ StreamSpec
    /\ \A s \in 1..MaxTasks :
         /\ WF_vars(s \in DOMAIN tasks /\ SupStart(s))
         /\ WF_vars(s \in DOMAIN tasks /\ PubDone(s))
         /\ WF_vars(s \in DOMAIN tasks /\ BackoffDone(s))
         /\ WF_vars(/\ s \in DOMAIN tasks
                    /\ tasks[s].exchange \in closed
                    /\ RecvRaise(s))
    /\ \A k \in 1..MaxSessions : WF_vars(k \in DOMAIN session /\ SessionEnd(k))
    /\ WF_vars(CloseExchange)
    /\ WF_vars(StopKafka)
    /\ WF_vars(CloseClients)

\* ------------------------------------------------- the service after startup
\* Every operation of the started service over one registry: the requests
\* are followed while no stream was started; the streams, and shutdown() at
\* any moment of them, while no request was made.
FrameNext ==
    \/ StrIdle /\ StartCollect
    \/ StrIdle /\ StartDetect
    \/ StrIdle /\ FetchReturn
    \/ StrIdle /\ FetchRaise
    \/ StrIdle /\ FetchTimeout
    \/ ReqIdle /\ StartStreaming
    \/ \E s \in DOMAIN tasks : SupStart(s)
    \/ \E s \in DOMAIN tasks : RecvOk(s)
    \/ \E s \in DOMAIN tasks : RecvRaise(s)
    \/ \E s \in DOMAIN tasks : PubDone(s)
    \/ \E s \in DOMAIN tasks : BackoffDone(s)
    \/ \E k \in DOMAIN session : SessionEnd(k)
    \/ ReqIdle /\ ShutdownBegin
    \/ CloseExchange
    \/ StopKafka
    \/ CloseClients

FrameSpec == StreamInit /\ [][FrameNext]_vars

\* ------------------------------------------------------------------ claims

\* The handler has returned to its caller.
Done == req.pc = "returned"

\* The records of seq that carry venue v and symbol s.
RecordsOf(seq, v, s) ==
    {j \in DOMAIN seq : seq[j].exchange = v /\ seq[j].symbol = s}

\* C1: when the venue with the lowest (ask if present else last) differs
\* from the venue with the highest (bid if present else last) and the
\* spread percentage reaches min_spread, detect_arbitrage_opportunities
\* returns exactly one opportunity, naming those two venues with their
\* prices (A ask=100, B bid=105, min_spread 0.5: buy A, sell B, spread 5).
C1_DetectFindsBestPair ==
    (Done /\ req.caller = "arbitrage") =>
        \A b, s \in DOMAIN result :
            ( /\ result[b].exchange # result[s].exchange
              /\ \A k \in DOMAIN result \ {b} :
                     BuyKey(result[b]) < BuyKey(result[k])
              /\ \A k \in DOMAIN result \ {s} :
                     SellKey(result[s]) > SellKey(result[k])
              /\ SpreadClears(SellKey(result[s]) - BuyKey(result[b]),
                              BuyKey(result[b]), req.min_spread) )
            => /\ Len(returned) = 1
               /\ returned[1].buy_exchange = result[b].exchange
               /\ returned[1].sell_exchange = result[s].exchange
               /\ returned[1].spread = SellKey(result[s]) - BuyKey(result[b])

\* C2: in every collect operation a failing venue takes nothing from the
\* others: every fetch that succeeded has all its records in the returned
\* list, and every venue that lists a requested symbol was asked for it
\* unless that venue itself failed earlier in the request.
C2_FailureIsolation ==
    (Done /\ req.caller = "api") =>
        /\ \A i \in DOMAIN issued :
             issued[i].outcome = "ok" =>
                 Cardinality(RecordsOf(returned, issued[i].exchange,
                                       issued[i].symbol)) = issued[i].size
        /\ \A v \in Active : \A k \in DOMAIN req.symbols :
             req.symbols[k] \in markets[v] =>
                 \/ \E i \in DOMAIN issued :
                        /\ issued[i].exchange = v
                        /\ issued[i].symbol = req.symbols[k]
                 \/ \E i \in DOMAIN issued :
                        /\ issued[i].exchange = v
                        /\ issued[i].outcome # "ok"

\* A venue failed, a later venue succeeded, and its records were returned.
C2_Witness ==
    /\ Done
    /\ req.caller = "api"
    /\ \E i, j \in DOMAIN issued :
         /\ i < j
         /\ issued[i].exchange # issued[j].exchange
         /\ issued[i].outcome = "error"
         /\ issued[j].outcome = "ok"
         /\ issued[j].size > 0
         /\ RecordsOf(returned, issued[j].exchange, issued[j].symbol) # {}

\* C3: every record collected has a symbol its venue lists, and no fetch is
\* issued to a venue for a symbol that venue does not list.
C3_OnlyListedSymbols ==
    /\ \A i \in DOMAIN issued : issued[i].symbol \in markets[issued[i].exchange]
    /\ \A j \in DOMAIN result : result[j].symbol \in markets[result[j].exchange]
    /\ (Done /\ req.caller = "api") =>
         \A j \in DOMAIN returned :
             returned[j].symbol \in markets[returned[j].exchange]

\* collect_ticker_data returned tickers although an active venue does not
\* list one of the requested symbols.
C3_Witness ==
    /\ Done
    /\ req.caller = "api"
    /\ req.kind = "ticker"
    /\ returned # <<>>
    /\ \E v \in Active : \E k \in DOMAIN req.symbols :
         req.symbols[k] \notin markets[v]

\* C4: the fetch of every capable venue is issued before the response of any
\* venue is awaited: the handler never waits on one venue while the request
\* to another capable venue has not been started.
C4_AllIssuedBeforeAwait ==
    req.pc = "await" =>
        \A v \in Active : \A k \in DOMAIN req.symbols :
            Capable(v, req.symbols[k]) =>
                \E i \in DOMAIN issued :
                    /\ issued[i].exchange = v
                    /\ issued[i].symbol = req.symbols[k]

\* C5: a fetch that never answers does not block the operation: a handler
\* suspended on a fetch eventually returns, and what it returns after a
\* timeout holds the records of every fetch that succeeded.
C5_HangDoesNotBlock ==
    /\ (req.pc = "await") ~> Done
    /\ [](Done =>
            \A i, j \in DOMAIN issued :
                (issued[i].outcome = "timeout" /\ issued[j].outcome = "ok") =>
                    Cardinality(RecordsOf(returned, issued[j].exchange,
                                          issued[j].symbol)) = issued[j].size)

\* One venue timed out and the records of another are in the returned list.
C5_Witness ==
    /\ Done
    /\ \E i, j \in DOMAIN issued :
         /\ issued[i].outcome = "timeout"
         /\ issued[j].outcome = "ok"
         /\ issued[i].exchange # issued[j].exchange
         /\ RecordsOf(returned, issued[j].exchange, issued[j].symbol) # {}

\* The entries of a returned list that report an error of venue v.
ErrorEntries(ret, v) ==
    {j \in DOMAIN ret : ret[j].kind = "error" /\ ret[j].exchange = v}

\* C6: for every venue whose fetch failed or timed out, the returned value
\* holds exactly one error entry identifying that venue.
C6_ErrorsInResult ==
    (Done /\ req.caller = "api") =>
        \A i \in DOMAIN issued :
            issued[i].outcome # "ok" =>
                Cardinality(ErrorEntries(returned, issued[i].exchange)) = 1

\* C7: during initialization every configured venue is attempted; a venue
\* whose construction or market load failed is not in the active set and a
\* venue whose market load succeeded is, wherever the failing venues stand
\* in the configuration list.
C7_InitIsolatesFailures ==
    /\ \A v \in Venues :
         /\ attempts[v] = "ok" <=> v \in Active
         /\ attempts[v] = "failed" => v \notin Active
         /\ (v < cfgIdx /\ cfgIdx <= NumVenues + 1 /\ initPc # "new")
                => attempts[v] # "none"
    /\ initPc \in {"initialized", "started"} =>
         \A v \in Venues : attempts[v] # "none"

\* A failing venue stands before a succeeding one and initialization is over.
C7_Witness ==
    /\ initPc = "initialized"
    /\ attempts[1] = "failed"
    /\ attempts[NumVenues] = "ok"
    /\ NumVenues \in Active

\* C8: when initialization ends with no active venue, it reports a hard
\* failure: the service is not put in the running state.
C8_ZeroActiveIsHardFailure ==
    (initPc \in {"initialized", "started"} \/ running) => exchanges # <<>>

\* C9: a supervisor whose receive raises does not terminate.  While the
\* session is not cancelled no supervisor ever ends; a receive error puts the
\* supervisor in backoff; the sleep can always end, and when it ends the
\* supervisor asks for the next message (or leaves, when running was turned
\* off meanwhile); a received message is then published as before.  The
\* errors may repeat any number of times: the steps are the same each time.
C9_SupervisorSurvivesErrors ==
    /\ [][\A s \in DOMAIN tasks :
            /\ (tasks[s].pc # "done" /\ tasks'[s].pc = "done") => ~running
            /\ (~tasks[s].erred /\ tasks'[s].erred) =>
                   (tasks[s].pc = "recv" /\ tasks'[s].pc = "backoff")
            /\ (tasks[s].pc = "backoff" /\ tasks'[s].pc # "backoff") =>
                   tasks'[s].pc = (IF running THEN "recv" ELSE "done")
            /\ (tasks[s].pc = "recv" /\ tasks[s].erred /\ tasks'[s].pc = "pub") =>
                   tasks'[s].pend > 0]_vars
    /\ [](\A s \in DOMAIN tasks :
            /\ tasks[s].pc = "backoff" => ENABLED BackoffDone(s)
            /\ (tasks[s].pc = "recv" /\ running) => ENABLED RecvRaise(s)
            /\ tasks[s].pc = "pub" => ENABLED PubDone(s))

\* A supervisor publishes a record after a receive error, the session not
\* being cancelled.
C9_Witness ==
    /\ running
    /\ \E s \in DOMAIN tasks : tasks[s].pc = "pub" /\ tasks[s].erred

\* C10: an error in one supervisor affects only that supervisor.  While a
\* supervisor is in backoff, or has failed and not recovered, every other
\* supervisor can take its next step (start, receive, publish); and the
\* gather of a session ends only when every supervisor of the session has
\* ended, which does not happen while the service is running.
C10_ErrorIsLocal ==
    /\ \A x, y \in DOMAIN tasks :
         (x # y /\ (tasks[x].pc = "backoff" \/ tasks[x].erred)) =>
             /\ tasks[y].pc = "created" => ENABLED SupStart(y)
             /\ tasks[y].pc = "recv" => ENABLED RecvOk(y)
             /\ tasks[y].pc = "pub" => ENABLED PubDone(y)
    /\ \A k \in DOMAIN session :
         session[k].state = "ended" =>
             /\ \A s \in TasksOf(k) : tasks[s].pc = "done"
             /\ TasksOf(k) # {} => ~running

\* One supervisor is in backoff while another of the same session has a
\* publish in flight, the session still gathering.
C10_Witness ==
    /\ running
    /\ \E x, y \in DOMAIN tasks :
         /\ x # y
         /\ tasks[x].sess = tasks[y].sess
         /\ session[tasks[x].sess].state = "gathering"
         /\ tasks[x].pc = "backoff"
         /\ tasks[y].pc = "pub"

\* Every supervisor created so far has left through its finally clause.
AllSupervisorsEnded == \A s \in DOMAIN tasks : tasks[s].pc = "done"

\* C11: after shutdown set running to false, every supervisor eventually
\* reaches its terminal state, whether it was suspended in a receive, in a
\* publish or in backoff at that moment, and a supervisor that has ended
\* publishes nothing more.
C11_CancelEndsSupervisors ==
    /\ (~running) ~> AllSupervisorsEnded
    /\ [][\A s \in DOMAIN tasks :
            tasks[s].pc = "done" => tasks'[s] = tasks[s]]_vars

\* C12: during shutdown no connector is closed and the producer is not
\* stopped while a supervisor is still running.
C12_CloseAfterSupervisors ==
    (closed # {} \/ sinks.kafka = "stopped") => AllSupervisorsEnded

\* C13: once running is false a supervisor starts no new receive: it does
\* not go on to the order book or the trades of the iteration it is in.
C13_NoReceiveAfterCancel ==
    [][\A s \in DOMAIN tasks :
          (~running /\ tasks'[s].pc = "recv") =>
              (tasks[s].pc = "recv" /\ tasks[s].dt = tasks'[s].dt)]_vars

\* Everything shutdown() releases is released: the state a completed
\* shutdown() leaves.
Released ==
    /\ ~running
    /\ closed = Active
    /\ sinks = [kafka |-> "stopped", mongo |-> "closed", redis |-> "closed"]

VenuesOf(seq) == {seq[i].exchange : i \in DOMAIN seq}

\* C18: detect_arbitrage_opportunities returns an empty list whenever the
\* tickers of the symbol were obtained from at most one venue.
C18_OneVenueNoOpportunity ==
    (Done /\ req.caller = "arbitrage" /\ Cardinality(VenuesOf(result)) <= 1)
        => returned = <<>>

\* The only ticker obtained quotes a bid above its own ask by more than
\* min_spread, and nothing is returned.
C18_Witness ==
    /\ Done
    /\ req.caller = "arbitrage"
    /\ Len(result) = 1
    /\ Len(exchanges) = NumVenues
    /\ SpreadClears(SellKey(result[1]) - BuyKey(result[1]), BuyKey(result[1]),
                    req.min_spread)
    /\ returned = <<>>

\* C19: with tickers from two or more venues, detect_arbitrage_opportunities
\* returns an empty list when the spread percentage of the best buy / best
\* sell pair is strictly below min_spread, and a non-empty list when it
\* equals min_spread exactly and the two venues differ.
C19_ThresholdIsInclusive ==
    (Done /\ req.caller = "arbitrage" /\ Len(result) >= 2) =>
        LET b == BestBuy(result)
            s == BestSell(result)
            spread == SellKey(s) - BuyKey(b)
        IN  /\ ~SpreadClears(spread, BuyKey(b), req.min_spread)
                => returned = <<>>
            /\ ( /\ spread * 100 * 100 = req.min_spread * BuyKey(b)
                 /\ b.exchange # s.exchange )
                => returned # <<>>

\* C20: after initialization has completed no operation changes the set of
\* active connectors or a connector's supported symbols: requests, arbitrage
\* detection, starting a stream, the supervisors' steps (their errors too)
\* and shutdown leave self.exchanges and every exchange.markets as
\* initialization left them.
C20_RegistryIsReadOnly ==
    /\ [][(initPc \in {"initialized", "started"}) =>
              (exchanges' = exchanges /\ markets' = markets)]_vars
    /\ [](initPc \in {"initialized", "started"} =>
            Active = {v \in Venues : attempts[v] = "ok"})

\* shutdown() has closed every connector of a service whose supervisor had a
\* receive error, and the connectors are all still registered.
C20_Witness ==
    /\ shutPc = "done"
    /\ closed = Active
    /\ Len(exchanges) = NumVenues
    /\ \E s \in DOMAIN tasks : tasks[s].erred

\* `a if a is present else b`: a value of 0 is present.
IfPresent(a, b) == IF a # None THEN a ELSE b

\* C21: the comparison of detect_arbitrage_opportunities ranges over one
\* ticker per venue that returned a ticker for the symbol, and the prices of
\* an opportunity are the least (ask if present else last) and the greatest
\* (bid if present else last) over those venues.
C21_ComparesOnePerVenue ==
    (Done /\ req.caller = "arbitrage") =>
        LET compared == SymbolTickers(result, req.symbols[1])
        IN  /\ VenuesOf(compared) = VenuesOf(result)
            /\ Len(compared) = Cardinality(VenuesOf(result))
            /\ \A k \in DOMAIN returned : \A i \in DOMAIN result :
                 /\ returned[k].buy_price
                        <= IfPresent(result[i].data.ask, result[i].data.last)
                 /\ returned[k].sell_price
                        >= IfPresent(result[i].data.bid, result[i].data.last)

\* C22: one call of detect_arbitrage_opportunities returns at most one
\* opportunity, whatever the number of venues and their prices.
C22_AtMostOneOpportunity ==
    (Done /\ req.caller = "arbitrage") => Len(returned) <= 1

\* Tickers of two venues, each quoting a bid that clears min_spread over the
\* other's ask: two pairs qualify.
C22_Witness ==
    /\ Done
    /\ req.caller = "arbitrage"
    /\ \E i, j \in DOMAIN result :
         /\ result[i].exchange # result[j].exchange
         /\ SpreadClears(SellKey(result[j]) - BuyKey(result[i]),
                         BuyKey(result[i]), req.min_spread)
         /\ SpreadClears(SellKey(result[i]) - BuyKey(result[j]),
                         BuyKey(result[j]), req.min_spread)

\* The orders a list of n tickers can come in.
Perms(n) == {f \in [1..n -> 1..n] : \A i, j \in 1..n : f[i] = f[j] => i = j}

Permute(seq, f) == [i \in 1..Len(seq) |-> seq[f[i]]]

\* C24: the result of detect_arbitrage_opportunities does not depend on the
\* order the venues' tickers come in, ties on the best prices included: the
\* same tickers in any order give the same venues and the same decision to
\* emit.
C24_TieBreakIgnoresOrder ==
    (Done /\ req.caller = "arbitrage") =>
        \A f \in Perms(Len(result)) :
            DetectArbitrage(Permute(result, f), req.symbols[1], req.min_spread)
                = returned

\* Two venues share the best buy price and one of them has the best sell
\* price, which clears min_spread: the first to be looked at would decide.
C24_Witness ==
    /\ Done
    /\ req.caller = "arbitrage"
    /\ \E i, j \in DOMAIN result :
         /\ result[i].exchange # result[j].exchange
         /\ BuyKey(result[i]) = BuyKey(result[j])
         /\ \A k \in DOMAIN result : BuyKey(result[k]) >= BuyKey(result[i])
         /\ SellKey(result[i]) > SellKey(result[j])
         /\ SpreadClears(SellKey(result[i]) - BuyKey(result[j]),
                         BuyKey(result[j]), req.min_spread)

\* C25: within one supervisor every record of a received message is
\* published, its publish call completed, before the next receive is
\* requested, and the records are published one after the other in the
\* order received: a receive is never pending while records are left, and
\* the trades of a batch leave one at a time, the supervisor going on to
\* its next receive (or its end) only after the last.
C25_PublishBeforeNextReceive ==
    /\ [](\A s \in DOMAIN tasks :
            /\ tasks[s].pc = "recv" => tasks[s].pend = 0
            /\ tasks[s].pc = "pub" => tasks[s].pend >= 1)
    /\ [][\A s \in DOMAIN tasks :
            (tasks[s].pc = "pub" /\ tasks'[s] # tasks[s]) =>
                IF tasks[s].pend > 1
                THEN /\ tasks'[s].pc = "pub"
                     /\ tasks'[s].pend = tasks[s].pend - 1
                     /\ tasks'[s].dt = tasks[s].dt
                ELSE /\ tasks'[s].pc \in {"recv", "done"}
                     /\ tasks'[s].pend = 0]_vars

\* A supervisor that published the order book has received a batch of two
\* trades and is publishing the first.
C25_Witness ==
    \E s \in DOMAIN tasks :
        /\ tasks[s].pc = "pub"
        /\ tasks[s].pend = 2
        /\ TypeOrder[tasks[s].dt] = "trades"
        /\ "orderbook" \in session[tasks[s].sess].data_types

\* The (venue, symbol) pairs session k streams.
PairsOf(k) == {<<tasks[s].exchange, tasks[s].symbol>> : s \in TasksOf(k)}

\* C26: stream_websocket_data creates exactly one supervisor per (venue,
\* symbol, data type) for which the venue lists the symbol.
C26_OneSupervisorPerTriple ==
    \A k \in DOMAIN session :
        Cardinality(TasksOf(k))
            = Cardinality(PairsOf(k)) * Cardinality(session[k].data_types)

\* Venue v lists one of the requested symbols.
CapableVenue(v) == \E k \in DOMAIN req.symbols : req.symbols[k] \in markets[v]

\* C27: a collect operation returns only after every capable venue has been
\* processed to its end: when it returns no fetch it started is outstanding
\* and every active venue that lists a requested symbol has been attempted.
C27_NoEarlyReturn ==
    Done =>
        /\ awaiting = NoFetch
        /\ \A i \in DOMAIN issued : issued[i].outcome # "pending"
        /\ \A v \in Active :
             CapableVenue(v) => \E i \in DOMAIN issued : issued[i].exchange = v

\* The first venue's payload failed conversion and the handler returned
\* after the fetch of another venue had ended too.
C27_Witness ==
    /\ Done
    /\ Len(issued) >= 2
    /\ issued[1].outcome = "schema"
    /\ issued[2].exchange # issued[1].exchange
    /\ issued[2].outcome \in {"ok", "timeout"}

\* C28: nothing is retried inside a collection: within one call every
\* (venue, symbol) pair is fetched at most once, a failed fetch included.
C28_NoRetry ==
    \A i, j \in DOMAIN issued :
        (i # j) => ~( /\ issued[i].exchange = issued[j].exchange
                      /\ issued[i].symbol = issued[j].symbol )

\* A trades collection over two venues has returned and the fetch of its
\* first venue had raised.
C28_Witness ==
    /\ Done
    /\ req.kind = "trades"
    /\ Len(issued) = 2
    /\ issued[1].outcome = "error"

\* C29: a malformed payload element is dropped alone: of every fetch that
\* answered, exactly the well-formed elements are in the returned list, the
\* well-formed elements that came with a malformed one included.
C29_MalformedDroppedAlone ==
    (Done /\ req.caller = "api") =>
        \A i \in DOMAIN issued :
            issued[i].outcome \in {"ok", "schema"} =>
                Cardinality(RecordsOf(returned, issued[i].exchange,
                                      issued[i].symbol)) = issued[i].good

\* The position of an active venue in self.exchanges.
PosOf(v) == CHOOSE p \in DOMAIN exchanges : exchanges[p] = v

\* C30: in collect_ticker_data with several symbols, when a fetch on venue v
\* fails no later symbol is fetched from v in that call, the tickers
\* collected before it (from v and from earlier venues) are in the result,
\* and every later venue that lists a requested symbol is still asked.
C30_FailureSkipsRestOfVenue ==
    (Done /\ req.caller = "api" /\ req.kind = "ticker") =>
        \A i \in DOMAIN issued :
            issued[i].outcome # "ok" =>
                /\ \A j \in DOMAIN issued :
                     j > i => issued[j].exchange # issued[i].exchange
                /\ \A j \in DOMAIN issued :
                     (j < i /\ issued[j].outcome = "ok") =>
                         RecordsOf(returned, issued[j].exchange,
                                   issued[j].symbol) # {}
                /\ \A v \in Active :
                     (PosOf(v) > PosOf(issued[i].exchange) /\ CapableVenue(v)) =>
                         \E j \in DOMAIN issued :
                             j > i /\ issued[j].exchange = v

\* Two symbols were asked; the first venue lists both, gave a ticker for
\* the first and failed on the second; the next venue was asked then.
C30_Witness ==
    /\ Done
    /\ req.kind = "ticker"
    /\ Len(req.symbols) = 2
    /\ Len(issued) >= 3
    /\ issued[1].outcome = "ok"
    /\ issued[2].outcome = "error"
    /\ issued[2].exchange = issued[1].exchange
    /\ issued[3].exchange # issued[1].exchange
    /\ RecordsOf(returned, issued[1].exchange, issued[1].symbol) # {}

\* The data_collected_counter was incremented for venue v and symbol s.
Counted(v, s) ==
    \E c \in DOMAIN counted : counted[c].exchange = v /\ counted[c].symbol = s

LiveSupervisors == {s \in DOMAIN tasks : tasks[s].pc \notin {"created", "done"}}

C34_PublishFailureAbsorbed ==
    [][\A s \in DOMAIN tasks :
         (tasks[s].pc = "pub" /\ tasks'[s] # tasks[s]) =>
            /\ tasks'[s].pc # "backoff"
            /\ tasks'[s].erred => tasks[s].erred
            /\ tasks[s].pend > 1 =>
                 (tasks'[s].pc = "pub" /\ tasks'[s].pend = tasks[s].pend - 1)
            /\ tasks[s].pend = 1 =>
                 tasks'[s] \in {AfterType(tasks[s]),
                                [AfterType(tasks[s]) EXCEPT !.erred = FALSE]}
            /\ tasks'[s].pc = "done" => ~running]_vars

\* A supervisor awaits trades with a receive error still unanswered by a
\* sent record: the order book it received after the error was not sent, and
\* it went on to the next receive without sleeping.
C34_Witness ==
    \E s \in DOMAIN tasks :
        /\ tasks[s].pc = "recv"
        /\ TypeOrder[tasks[s].dt] = "trades"
        /\ "orderbook" \in session[tasks[s].sess].data_types
        /\ tasks[s].erred

\* C33: at any time at most one supervisor that has started and not exited
\* serves a given (venue, symbol), however often POST /stream/start is
\* called.
C33_OneLiveSupervisorPerPair ==
    \A s1, s2 \in LiveSupervisors :
        (tasks[s1].exchange = tasks[s2].exchange
            /\ tasks[s1].symbol = tasks[s2].symbol) => s1 = s2

\* Supervisor s streams the trades of its pair among other data types.
StreamsTrades(s) ==
    /\ s \in DOMAIN tasks
    /\ "trades" \in session[tasks[s].sess].data_types

\* Supervisor s is suspended at pc with the trades at hand.
AtTrades(s, pc) ==
    /\ tasks[s].pc = pc
    /\ tasks[s].dt # 0
    /\ TypeOrder[tasks[s].dt] = "trades"

\* A receive of trades by supervisor s ends without a trade to publish: it
\* raises or returns an empty list.
TradesReceiveFruitless(s) ==
    /\ StreamsTrades(s)
    /\ AtTrades(s, "recv")
    /\ tasks'[s].pc # "pub"

\* C35: a supervisor that streams trades and whose receives fail again and
\* again publishes a trade at some time, provided its receive of trades
\* itself succeeds from some time on (it does not raise or come back empty
\* again and again, and it does not wait for ever): the failures of the
\* order book receive do not keep the trades from being published.
C35_FailingTypeDoesNotStarveOthers ==
    \A s \in 1..MaxTasks :
        \/ <>[]~(StreamsTrades(s) /\ tasks[s].pc = "backoff")
        \/ []<><<TradesReceiveFruitless(s)>>_vars
        \/ <>[](StreamsTrades(s) /\ AtTrades(s, "recv"))
        \/ <>(StreamsTrades(s) /\ AtTrades(s, "pub"))

\* C36: when a call of shutdown() has ended, by a return or by an
\* exception, every connector has been closed or is the one whose close()
\* raised, the producer has been stopped or its stop() is what raised, and
\* the document store and cache clients are closed.
C36_ShutdownClosesEverything ==
    shutPc \in {"done", "raised"} =>
        /\ \A i \in DOMAIN exchanges :
             \/ exchanges[i] \in closed
             \/ shutPc = "raised" /\ closeIdx = i
        /\ \/ sinks.kafka = "stopped"
           \/ shutPc = "raised" /\ closeIdx > Len(exchanges)
        /\ sinks.mongo = "closed"
        /\ sinks.redis = "closed"

\* ------------------------------------------------- EthereumCollector
BlockNumbers == FirstBlock..(FirstBlock + MaxBlocks)

HexDigits ==
    <<"0", "1", "2", "3", "4", "5", "6", "7",
      "8", "9", "a", "b", "c", "d", "e", "f">>

\* The digits of n in base 16, most significant first, without leading
\* zeros; "0" for 0.
RECURSIVE HexOf(_)
HexOf(n) ==
    IF n < 16 THEN <<HexDigits[n + 1]>>
    ELSE Append(HexOf(n \div 16), HexDigits[(n % 16) + 1])

\* Python's hex(block_number), one character per element.
Hex(n) == <<"0", "x">> \o HexOf(n)

DigitValue(c) == CHOOSE d \in 0..15 : HexDigits[d + 1] = c

RECURSIVE IntOf(_)
IntOf(digits) ==
    IF digits = <<>> THEN 0
    ELSE 16 * IntOf(SubSeq(digits, 1, Len(digits) - 1))
         + DigitValue(digits[Len(digits)])

\* Python's int(text, 16) of a text that starts with 0x.
FromHex(text) == IntOf(SubSeq(text, 3, Len(text)))

\* The "number" field of the block the node returns for
\* eth_getBlockByNumber [param, True].
NodeBlockNumber(param) == Hex(FromHex(param))

LastBlock_Exclusive(end_block) == end_block - 1

\* The last value of range(start_block, end_block + 1).
LastBlock(end_block) == end_block

\* The call after the iteration of block_num: the next value of the range,
\* or the return of collected_data when the range is exhausted.
NextBlock(c) ==
    IF c.block_num + 1 > LastBlock(c.end_block)
    THEN [c EXCEPT !.pc = "returned"]
    ELSE [c EXCEPT !.block_num = @ + 1]

\* collect_block_range(start_block, end_block) is called: an empty range
\* returns the empty collected_data at once.
CollectBlockRange ==
    /\ collector.pc = "idle"
    /\ \E start_block, end_block \in BlockNumbers :
         collector' =
            [pc |-> IF start_block > LastBlock(end_block)
                    THEN "returned" ELSE "loop",
             start_block |-> start_block, end_block |-> end_block,
             block_num |-> start_block, blocks |-> <<>>,
             requests |-> <<>>, fetched |-> <<>>]
    /\ UNCHANGED <<regVars, shutVars, reqVars, strVars>>

\* One iteration: get_block posts eth_getBlockByNumber with the hex of
\* block_num (the post has a 30 s timeout); make_request returns the block,
\* or None after any failure; a block is converted and appended, a None is
\* reported and skipped; then the loop sleeps and goes on.
GetBlock ==
    /\ collector.pc = "loop"
    /\ \E fetched \in BOOLEAN :
         LET param == Hex(collector.block_num)
             c == [collector EXCEPT
                      !.requests = Append(@, param),
                      !.fetched = Append(@, fetched),
                      !.blocks = IF fetched
                                 THEN Append(@, FromHex(NodeBlockNumber(param)))
                                 ELSE @]
         IN  collector' = NextBlock(c)
    /\ UNCHANGED <<regVars, shutVars, reqVars, strVars>>

BlockInit ==
    /\ Init
    /\ ColIdle

BlockNext ==
    \/ CollectBlockRange
    \/ GetBlock

BlockSpec == BlockInit /\ [][BlockNext]_vars

\* Every request of make_request ends within its timeout, so a started
\* iteration completes.
BlockFair == BlockSpec /\ WF_vars(GetBlock)

\* seq is strictly ascending.
Ascending(seq) == \A i, j \in DOMAIN seq : i < j => seq[i] < seq[j]

\* The numbers of asked whose request succeeded, in the order asked.
RECURSIVE Fetched(_, _)
Fetched(asked, ok) ==
    IF asked = <<>> THEN <<>>
    ELSE (IF Head(ok) THEN <<Head(asked)>> ELSE <<>>)
         \o Fetched(Tail(asked), Tail(ok))

====
